---- MODULE Spec2Model ----
(***************************************************************************)
(* Model of the configurable getter derivation of src/src/getters.rs:      *)
(* derive -> GetterDerive::try_from -> derive_struct_impl ->               *)
(* derive_field_methods -> all_methods / getter_fn_ident.                  *)
(*                                                                         *)
(* A ParametrizedAttr is a record [args, paths]: args is the HashMap from  *)
(* argument name to ArgValue (a function whose DOMAIN is the set of keys   *)
(* present), paths the flags written without a value.  An ArgValue is      *)
(* [lit |-> FALSE, s |-> ""] for ArgValue::None and [lit |-> TRUE, s |-> v]*)
(* for a string literal v.  An Option<LitStr> is [some, s].                *)
(***************************************************************************)
EXTENDS Naturals, Sequences, FiniteSets, TLC

----------------------------------------------------------------------------
(* Bounds of the model *)

\* largest number of fields of a record
MaxFields == 2
\* largest number of keys written in the annotations of one item, the type's
\* and its fields' together
MaxWritten == 5

----------------------------------------------------------------------------
(* Values *)

Keys == {"prefix", "all", "as_copy", "as_clone", "as_ref", "as_mut", "skip", "base_name"}

StyleKeys == {"as_copy", "as_clone", "as_ref", "as_mut"}

ArgNone == [lit |-> FALSE, s |-> ""]

ArgStr(v) == [lit |-> TRUE, s |-> v]

None == [some |-> FALSE, s |-> ""]

Some(v) == [some |-> TRUE, s |-> v]

\* names of the fields of a named-field record, in declaration order
FieldName(i) == <<"x", "y", "z", "w">>[i]

\* the item kinds and field shapes of a DeriveInput
Shapes == {"named", "unnamed", "unit", "enum", "union"}

\* error messages
ErrEnum == "Deriving getters is not supported in enums"

ErrUnion == "Deriving getters is not supported in unions"

ErrTuple == "Deriving getters is not supported for tuple-bases structs"

ErrUnit == "Deriving getters is meaningless for unit structs"

ErrAll == "`all` attribute can't be combined with other"

ErrCopyClone == "`as_clone` and `as_copy` attributes can't be present together"

ErrUnnamed == "Unnamed fields must be equipped with base_name attribute"

ErrAttr == "attribute does not meet the argument requirements"

UnsupportedShape == {ErrEnum, ErrUnion, ErrTuple, ErrUnit}

----------------------------------------------------------------------------
(* The annotations a user can write *)

\* keys that are written as bare flags
FlagKeys == {"all", "as_copy", "as_clone", "as_ref", "as_mut", "skip"}

\* string values a key is written with
ValueChoices(k) ==
    CASE k = "prefix" -> {"get_"}
      [] k = "as_ref" -> {""}
      [] k = "base_name" -> {"x"}
      [] k = "skip" -> {"x"}
      [] OTHER -> {}

AllValues == UNION {ValueChoices(k) : k \in Keys}

\* the ParametrizedAttr that ParametrizedAttr::with builds from annotations
\* writing at most n keys
Annotations(n) ==
    UNION {
        UNION {
            { [paths |-> P, args |-> a] :
                a \in {f \in [S \ P -> {ArgStr(v) : v \in AllValues}] :
                          \A k \in S \ P : f[k].s \in ValueChoices(k)} }
            : P \in SUBSET (S \cap FlagKeys) }
        : S \in {T \in SUBSET Keys : Cardinality(T) <= n} }

NoAnnotation == [paths |-> {}, args |-> << >>]

\* the number of keys an annotation writes
NumKeys(a) == Cardinality(a.paths \cup DOMAIN a.args)

AnnotationsUpTo == [n \in 0..MaxWritten |-> Annotations(n)]

----------------------------------------------------------------------------
(* HashMap operations on ParametrizedAttr::args *)

contains_key(args, k) == k \in DOMAIN args

insert(args, k, v) == [x \in DOMAIN args \cup {k} |-> IF x = k THEN v ELSE args[x]]

remove(args, k) == [x \in DOMAIN args \ {k} |-> args[x]]

\* args.get(k).map(|a| a.clone().try_into()).transpose()?.  Every value that
\* passes the check of try_from is a string literal, except the valueless
\* flags `all` and `skip`, which are never converted.
get_lit(args, k) == IF contains_key(args, k) THEN Some(args[k].s) ELSE None

----------------------------------------------------------------------------
(* amplify_syn: the requirement schema of try_from and ParametrizedAttr's   *)
(* check and merged, as getters.rs uses them                                *)

\* the keys of the HashMap `map` of try_from
SchemaKeys(global) ==
    {"prefix", "all", "as_copy", "as_clone", "as_ref", "as_mut"}
        \cup (IF global THEN {} ELSE {"skip", "base_name"})

\* ArgValueReq::Prohibited: the argument is a flag and must not have a value
ProhibitedKeys == {"all", "skip"}

\* ArgValueReq::default_value of each entry of `map`
DefaultValue(k) ==
    CASE k = "as_ref" -> ArgStr("_ref")
      [] k = "as_mut" -> ArgStr("_mut")
      [] k \in {"prefix", "as_copy", "as_clone"} -> ArgStr("")
      [] OTHER -> ArgNone

\* attr.check(AttrReq::with(map)): every flag named by the schema moves from
\* paths to args with the default value of its requirement (an entry already
\* in args is kept); then an argument outside the schema, a value on a
\* Prohibited argument, a missing value on base_name, or a flag left in paths
\* is an error.  Keys that were not written stay absent.
AttrCheck(attr, global) ==
    LET moved == attr.paths \cap SchemaKeys(global)
        args  == [k \in DOMAIN attr.args \cup moved |->
                     IF k \in DOMAIN attr.args THEN attr.args[k] ELSE DefaultValue(k)]
        paths == attr.paths \ moved
        ok    == /\ DOMAIN args \subseteq SchemaKeys(global)
                 /\ \A k \in DOMAIN args :
                        /\ k \in ProhibitedKeys => ~args[k].lit
                        /\ k = "base_name" => args[k].lit
                 /\ paths = {}
    IN  [ok |-> ok, attr |-> [paths |-> paths, args |-> args]]

\* global_param.clone().merged(local_param): args.extend(other.args), the
\* entries of `other` replace the entries of the same key
Merged(self, other) ==
    [paths |-> self.paths \cup other.paths,
     args  |-> [k \in DOMAIN self.args \cup DOMAIN other.args |->
                   IF k \in DOMAIN other.args THEN other.args[k] ELSE self.args[k]]]

----------------------------------------------------------------------------
(* GetterDerive::try_from *)

NoGetter ==
    [prefix |-> "", skip |-> FALSE, copy |-> FALSE, base |-> None,
     main |-> None, as_ref |-> None, as_mut |-> None]

\* lines 85-89: the keys `all` cannot be combined with
AllExcludes == {"as_clone", "as_ref", "as_mut"}

\* lines 95-100: `all` is replaced by the three styles
ExpandAll(args) ==
    insert(insert(insert(remove(args, "all"),
        "as_clone", ArgStr("")), "as_ref", ArgStr("_ref")), "as_mut", ArgStr("_mut"))

\* lines 110-118: with no style key present, as_ref = "_ref" is inserted
DefaultToBorrow(args) ==
    IF DOMAIN args \cap StyleKeys = {} THEN insert(args, "as_ref", ArgStr("_ref")) ELSE args

\* lines 120-150
BuildGetter(args) ==
    [prefix |-> IF contains_key(args, "prefix") THEN args["prefix"].s ELSE "",
     skip   |-> contains_key(args, "skip"),
     copy   |-> contains_key(args, "as_copy"),
     base   |-> get_lit(args, "base_name"),
     main   |-> IF contains_key(args, "as_copy")
                THEN get_lit(args, "as_copy") ELSE get_lit(args, "as_clone"),
     as_ref |-> get_lit(args, "as_ref"),
     as_mut |-> get_lit(args, "as_mut")]

\* try_from without the test of lines 103-108
TryFrom_NoCopyCloneTest(attr, global) ==
    LET chk == AttrCheck(attr, global)
        a1  == chk.attr.args
        a2  == IF contains_key(a1, "all") THEN ExpandAll(a1) ELSE a1
        a3  == DefaultToBorrow(a2)
        Err(e, args) ==
            [ok |-> FALSE, err |-> e, getter |-> NoGetter,
             attr |-> [paths |-> chk.attr.paths, args |-> args]]
    IN  IF ~chk.ok THEN Err(ErrAttr, a1)
        ELSE IF contains_key(a1, "all") /\ DOMAIN a1 \cap AllExcludes # {}
             THEN Err(ErrAll, a1)
        ELSE [ok |-> TRUE, err |-> "", getter |-> BuildGetter(a3),
              attr |-> [paths |-> chk.attr.paths, args |-> a3]]

\* try_from(attr, global): the result, and attr as the call leaves it (attr is
\* a &mut and every step of try_from writes through it)
TryFrom(attr, global) ==
    LET chk == AttrCheck(attr, global)
        a1  == chk.attr.args
        a2  == IF contains_key(a1, "all") THEN ExpandAll(a1) ELSE a1
        a3  == DefaultToBorrow(a2)
        Err(e, args) ==
            [ok |-> FALSE, err |-> e, getter |-> NoGetter,
             attr |-> [paths |-> chk.attr.paths, args |-> args]]
    IN  IF ~chk.ok THEN Err(ErrAttr, a1)
        ELSE IF contains_key(a1, "all") /\ DOMAIN a1 \cap AllExcludes # {}
             THEN Err(ErrAll, a1)
        ELSE IF contains_key(a2, "as_clone") /\ contains_key(a2, "as_copy")
             THEN Err(ErrCopyClone, a2)
        ELSE [ok |-> TRUE, err |-> "", getter |-> BuildGetter(a3),
              attr |-> [paths |-> chk.attr.paths, args |-> a3]]

----------------------------------------------------------------------------
(* GetterMethod, all_methods, getter_fn_ident *)

Main(copy) == [kind |-> "Main", copy |-> copy]

AsRef == [kind |-> "AsRef", copy |-> FALSE]

AsMut == [kind |-> "AsMut", copy |-> FALSE]

\* the derived Ord of GetterMethod: Main < AsRef < AsMut
Rank(kind) == CASE kind = "Main" -> 0 [] kind = "AsRef" -> 1 [] OTHER -> 2

\* all_methods pushing AsMut before AsRef
all_methods_MutFirst(getter) ==
    (IF getter.main.some THEN <<Main(getter.copy)>> ELSE << >>)
        \o (IF getter.as_mut.some THEN <<AsMut>> ELSE << >>)
        \o (IF getter.as_ref.some THEN <<AsRef>> ELSE << >>)

all_methods(getter) ==
    (IF getter.main.some THEN <<Main(getter.copy)>> ELSE << >>)
        \o (IF getter.as_ref.some THEN <<AsRef>> ELSE << >>)
        \o (IF getter.as_mut.some THEN <<AsMut>> ELSE << >>)

\* lines 230-236
name_lit(getter, method) ==
    CASE method.kind = "Main" -> getter.main
      [] method.kind = "AsRef" -> getter.as_ref
      [] OTHER -> getter.as_mut

\* getter_fn_ident formatting the name without the prefix
getter_fn_ident_NoPrefix(getter, method, field_name) ==
    IF ~getter.base.some /\ ~field_name.some
    THEN [ok |-> FALSE, err |-> ErrUnnamed, ident |-> ""]
    ELSE LET base_string == IF getter.base.some THEN getter.base.s ELSE field_name.s
         IN  [ok |-> TRUE, err |-> "",
              ident |-> base_string \o name_lit(getter, method).s]

\* getter_fn_ident(method, field_name, span); field_name is an Option
getter_fn_ident(getter, method, field_name) ==
    IF ~getter.base.some /\ ~field_name.some
    THEN [ok |-> FALSE, err |-> ErrUnnamed, ident |-> ""]
    ELSE LET base_string == IF getter.base.some THEN getter.base.s ELSE field_name.s
         IN  [ok |-> TRUE, err |-> "",
              ident |-> getter.prefix \o base_string \o name_lit(getter, method).s]

----------------------------------------------------------------------------
(* derive_field_methods *)

\* one generated method: the field it reads, its style and its identifier
Method(index, method, ident) ==
    [field |-> index, kind |-> method.kind, copy |-> method.copy, ident |-> ident]

\* lines 331-346: one method per style of all_methods, in that order
FieldMethods(getter, index, field_name) ==
    LET ms == all_methods(getter)
    IN  [i \in 1..Len(ms) |->
            Method(index, ms[i], getter_fn_ident(getter, ms[i], field_name).ident)]

\* derive_field_methods without the early return of lines 323-325
SkipReturns_Never(getter) == FALSE

\* lines 323-325: a skipped field returns before any method is built
SkipReturns(getter) == getter.skip

\* derive_field_methods(field, index, struct_name, global_param) for a field
\* whose attributes parse to local_param
derive_field_methods(local_param, field_name, index, global) ==
    LET first  == TryFrom(local_param, FALSE)
        second == TryFrom(Merged(global, first.attr), FALSE)
        getter == second.getter
        Err(e) == [ok |-> FALSE, err |-> e, res |-> << >>, getter |-> NoGetter]
    IN  IF ~first.ok THEN Err(first.err)
        ELSE IF ~second.ok THEN Err(second.err)
        ELSE IF SkipReturns(getter)
             THEN [ok |-> TRUE, err |-> "", res |-> << >>, getter |-> getter]
        ELSE IF \E i \in 1..Len(all_methods(getter)) :
                    ~getter_fn_ident(getter, all_methods(getter)[i], field_name).ok
             THEN Err(ErrUnnamed)
        ELSE [ok |-> TRUE, err |-> "", getter |-> getter,
              res |-> FieldMethods(getter, index, field_name)]

----------------------------------------------------------------------------
(* The derivation as a state machine *)

VARIABLES
    shape,          \* input: the kind of item and of its fields
    nfields,        \* input: the number of fields of the record
    global_attr,    \* input: the `getter` annotation of the type, as parsed
    pc,             \* position: "derive", "struct_impl", "fields", "done"
    global_param,   \* global_param after try_from(&mut global_param, true)
    index,          \* the field the loop of derive_struct_impl is at
    methods,        \* the Vec `methods` of derive_struct_impl
    local_attr,     \* the `getter` annotation of the last field processed
    getter,         \* the GetterDerive resolved for the last field processed
    result,         \* the Result returned by derive
    written         \* the number of keys written in the annotations read so far

vars == <<shape, nfields, global_attr, pc, global_param, index, methods,
          local_attr, getter, result, written>>

Pending == [status |-> "pending", err |-> "", block |-> << >>]

\* an error that hands out the methods built before it
ErrResult_KeepsBuilt(e, built) == [status |-> "err", err |-> e, block |-> built]

\* Err(Error::new(..)): an error carries no tokens
ErrResult(e, built) == [status |-> "err", err |-> e, block |-> << >>]

\* Ok(quote! { impl .. { #( #methods )* } })
OkResult(built) == [status |-> "ok", err |-> "", block |-> built]

Init ==
    /\ shape \in Shapes
    /\ nfields \in 0..MaxFields
    /\ shape \in {"unit", "enum", "union"} => nfields = 0
    /\ global_attr \in AnnotationsUpTo[MaxWritten]
    /\ written = NumKeys(global_attr)
    /\ pc = "derive"
    /\ global_param = global_attr
    /\ index = 1
    /\ methods = << >>
    /\ local_attr = NoAnnotation
    /\ getter = NoGetter
    /\ result = Pending

\* lines 28-53
Derive ==
    /\ pc = "derive"
    /\ LET r == TryFrom(global_attr, TRUE)
       IN  /\ global_param' = r.attr
           /\ IF ~r.ok THEN
                  /\ result' = ErrResult(r.err, methods)
                  /\ pc' = "done"
              ELSE IF shape = "enum" THEN
                  /\ result' = ErrResult(ErrEnum, methods)
                  /\ pc' = "done"
              ELSE IF shape = "union" THEN
                  /\ result' = ErrResult(ErrUnion, methods)
                  /\ pc' = "done"
              ELSE
                  /\ result' = result
                  /\ pc' = "struct_impl"
    /\ UNCHANGED <<shape, nfields, global_attr, index, methods, local_attr, getter,
                   written>>

\* lines 281-283, 293-301: the match on data.fields
DeriveStructImpl ==
    /\ pc = "struct_impl"
    /\ methods' = << >>
    /\ index' = 1
    /\ IF shape = "named" THEN
           /\ pc' = "fields"
           /\ result' = result
       ELSE IF shape = "unnamed" THEN
           /\ pc' = "done"
           /\ result' = ErrResult(ErrTuple, methods)
       ELSE
           /\ pc' = "done"
           /\ result' = ErrResult(ErrUnit, methods)
    /\ UNCHANGED <<shape, nfields, global_attr, global_param, local_attr, getter,
                   written>>

\* lines 284-291: one iteration of the loop over fields.named
DeriveField ==
    /\ pc = "fields"
    /\ index <= nfields
    /\ \E a \in AnnotationsUpTo[MaxWritten - written] :
          LET r == derive_field_methods(a, Some(FieldName(index)), index, global_param)
          IN  /\ local_attr' = a
              /\ written' = written + NumKeys(a)
              /\ getter' = r.getter
              /\ IF r.ok THEN
                     /\ methods' = methods \o r.res
                     /\ index' = index + 1
                     /\ pc' = pc
                     /\ result' = result
                 ELSE
                     /\ methods' = methods
                     /\ index' = index
                     /\ pc' = "done"
                     /\ result' = ErrResult(r.err, methods)
    /\ UNCHANGED <<shape, nfields, global_attr, global_param>>

\* lines 303-307
Finish ==
    /\ pc = "fields"
    /\ index > nfields
    /\ pc' = "done"
    /\ result' = OkResult(methods)
    /\ UNCHANGED <<shape, nfields, global_attr, global_param, index, methods,
                   local_attr, getter, written>>

Next == Derive \/ DeriveStructImpl \/ DeriveField \/ Finish

Spec == Init /\ [][Next]_vars

----------------------------------------------------------------------------
(* Vocabulary of the properties, in terms of what the user wrote *)

\* the keys an annotation writes
W(a) == a.paths \cup DOMAIN a.args

\* the annotation meets the requirement schema of its level
Valid(a, global) ==
    /\ W(a) \subseteq SchemaKeys(global)
    /\ \A k \in DOMAIN a.args : k \notin ProhibitedKeys

\* the annotation combines `all` with a style key, or as_copy with as_clone
OwnConflict(a) ==
    \/ "all" \in W(a) /\ W(a) \cap StyleKeys # {}
    \/ {"as_copy", "as_clone"} \subseteq W(a)

\* the owning style the field annotation a asks for meets the other owning
\* style in the type-level configuration g
MergeConflict(g, a) ==
    \/ "as_copy" \in W(a) /\ "as_clone" \in DOMAIN g.args
    \/ W(a) \cap {"as_clone", "all"} # {} /\ "as_copy" \in DOMAIN g.args

\* the type annotation was accepted by derive
GlobalValid == Valid(global_attr, TRUE) /\ ~OwnConflict(global_attr)

\* derive_field_methods has run on at least one field; local_attr is the
\* annotation of the last field it ran on
FieldSeen ==
    \/ index > 1
    \/ pc = "done" /\ shape = "named" /\ nfields > 0 /\ GlobalValid

\* the last field read was processed without error: it is field index - 1,
\* local_attr is its annotation and getter its effective configuration
Processed == index > 1 /\ result.status # "err"

\* the methods built for field i
FieldBlock(i) == SelectSeq(methods, LAMBDA m : m.field = i)

\* the keys a field annotation sets, `all` standing for the three styles
FieldKeys(a) ==
    (W(a) \ {"all"}) \cup (IF "all" \in W(a) THEN AllExcludes ELSE {})

\* the value a field annotation gives to a key it sets
FieldValue(a, k) == IF k \in DOMAIN a.args THEN a.args[k] ELSE DefaultValue(k)

\* the type-level configuration overridden key by key by what the field wrote
OverriddenByField(g, a) ==
    [k \in DOMAIN g.args \cup FieldKeys(a) |->
        IF k \in FieldKeys(a) THEN FieldValue(a, k) ELSE g.args[k]]

\* the three styles of `all`
AllStyles(g) ==
    /\ g.main = Some("") /\ ~g.copy
    /\ g.as_ref = Some("_ref")
    /\ g.as_mut = Some("_mut")

----------------------------------------------------------------------------
(* Properties *)

\* C1: for every field processed, the effective configuration holds, key by
\* key, the value the field's annotation wrote and otherwise the type-level
\* value; a field without annotation gets exactly the type-level configuration.
C1_FieldOverridesType ==
    Processed => getter = BuildGetter(OverriddenByField(global_param, local_attr))

\* C2: with no type-level annotation, a field annotated only `as_copy` gets
\* exactly the copy accessor named like the field, and a field without
\* annotation gets exactly the borrowing accessor <field>_ref.
C2_DefaultsPerField ==
    (Processed /\ global_attr = NoAnnotation) =>
        /\ local_attr = [paths |-> {"as_copy"}, args |-> << >>] =>
              FieldBlock(index - 1)
                = <<Method(index - 1, Main(TRUE), FieldName(index - 1))>>
        /\ local_attr = NoAnnotation =>
              FieldBlock(index - 1)
                = <<Method(index - 1, AsRef, FieldName(index - 1) \o "_ref")>>

\* C3: at type level and at field level, `all` alone resolves to exactly the
\* three styles Main(copy = false, ""), AsRef "_ref", AsMut "_mut", and `all`
\* with any of as_copy, as_clone, as_ref, as_mut fails with the
\* `all`-cannot-be-combined error.
C3_AllShorthand ==
    /\ (pc # "derive" /\ Valid(global_attr, TRUE) /\ "all" \in W(global_attr)) =>
          IF W(global_attr) \cap StyleKeys = {}
          THEN AllStyles(BuildGetter(global_param.args))
          ELSE result.status = "err" /\ result.err = ErrAll
    /\ (FieldSeen /\ Valid(local_attr, FALSE) /\ "all" \in W(local_attr)) =>
          IF W(local_attr) \cap StyleKeys # {}
          THEN result.status = "err" /\ result.err = ErrAll
          ELSE ~MergeConflict(global_param, local_attr) =>
                  Processed /\ AllStyles(getter)

\* both as_copy and as_clone are written in the type annotation
BothInType == pc # "derive" /\ Valid(global_attr, TRUE)
                  /\ {"as_copy", "as_clone"} \subseteq W(global_attr)

\* both as_copy and as_clone are written in the annotation of the last field
BothInField == FieldSeen /\ Valid(local_attr, FALSE)
                  /\ {"as_copy", "as_clone"} \subseteq W(local_attr)

\* the last field's annotation is free of conflict and its owning style meets
\* the other one, set at type level, after the merge
MeetAfterMerge == FieldSeen /\ Valid(local_attr, FALSE) /\ ~OwnConflict(local_attr)
                     /\ MergeConflict(global_param, local_attr)

Failed(e) == result.status = "err" /\ result.err = e /\ result.block = << >>

\* C4 as stated: whenever as_copy and as_clone both reach the resolver for one
\* field (written in one annotation, or meeting after the merge), generation
\* fails with the copy/clone conflict error and no method is emitted.
C4_AlwaysCopyCloneError ==
    (BothInType \/ BothInField \/ MeetAfterMerge) => Failed(ErrCopyClone)

\* C4 amended: whenever as_copy and as_clone both reach the resolver for one
\* field, generation fails and no method is emitted; the error is the
\* copy/clone conflict error, except that an annotation that writes both of
\* them next to `all` fails with the `all`-cannot-be-combined error.
C4_CopyCloneFails ==
    /\ BothInType =>
          Failed(IF "all" \in W(global_attr) THEN ErrAll ELSE ErrCopyClone)
    /\ BothInField =>
          Failed(IF "all" \in W(local_attr) THEN ErrAll ELSE ErrCopyClone)
    /\ MeetAfterMerge => Failed(ErrCopyClone)

\* as_clone comes from `all` at type level, as_copy from the field
C4_Witness ==
    /\ MeetAfterMerge
    /\ "all" \in W(global_attr)
    /\ "as_copy" \in W(local_attr)
    /\ Failed(ErrCopyClone)

\* the last field read carries the flag `skip`
Skipped == FieldSeen /\ "skip" \in local_attr.paths

Suffix(g, kind) ==
    CASE kind = "Main" -> g.main.s
      [] kind = "AsRef" -> g.as_ref.s
      [] OTHER -> g.as_mut.s

\* C6: every generated method is named prefix + base + suffix of the
\* effective configuration, base being the base_name override if given and
\* the field's name otherwise; a field with neither name nor base_name fails.
C6_NameIsPrefixBaseSuffix ==
    /\ Processed =>
          \A i \in 1..Len(FieldBlock(index - 1)) :
              LET m == FieldBlock(index - 1)[i]
              IN  m.ident = getter.prefix
                              \o (IF "base_name" \in W(local_attr)
                                  THEN local_attr.args["base_name"].s
                                  ELSE FieldName(index - 1))
                              \o Suffix(getter, m.kind)
    /\ (Processed /\ "base_name" \notin W(local_attr)) =>
          LET r == derive_field_methods(local_attr, None, index - 1, global_param)
          IN  getter.skip \/ (~r.ok /\ r.err = ErrUnnamed /\ r.res = << >>)
    /\ (pc = "done" /\ shape = "unnamed") => result.status = "err"

\* a field with a prefix, a base_name override and two styles
C6_Witness ==
    /\ Processed
    /\ getter.prefix = "get_"
    /\ "base_name" \in W(local_attr)
    /\ Len(FieldBlock(index - 1)) >= 2

\* a sequence of methods is grouped by field in declaration order, each
\* field's styles in the order Main, AsRef, AsMut
Ordered(ms) ==
    \A i, j \in 1..Len(ms) :
        i < j => \/ ms[i].field < ms[j].field
                 \/ ms[i].field = ms[j].field /\ Rank(ms[i].kind) < Rank(ms[j].kind)

\* C7: methods appear grouped by field in declaration order, and within one
\* field in the order Main, AsRef, AsMut.
C7_FixedOrder == Ordered(methods) /\ Ordered(result.block)

\* a generated block of two fields, the first with the three styles
C7_Witness ==
    /\ result.status = "ok"
    /\ Len(FieldBlock(1)) = 3
    /\ Len(FieldBlock(2)) >= 2
    /\ result.block = methods

\* C8: only a record with at least one named field yields a block; an enum,
\* a union, a positional-only record and a record without fields (a unit
\* record or an empty field list) are rejected with an unsupported-shape error.
C8_OnlyNamedFields ==
    (pc = "done" /\ GlobalValid /\ (shape # "named" \/ nfields = 0)) =>
        result.status = "err" /\ result.err \in UnsupportedShape
            /\ result.block = << >>

\* C9: generation is all-or-nothing: a field whose processing fails makes the
\* call return the error with no method, those of earlier fields included;
\* a block is returned only when every field was processed.
C9_AllOrNothing ==
    /\ result.status = "err" => result.block = << >> /\ pc = "done"
    /\ (FieldSeen /\ (\/ ~Valid(local_attr, FALSE)
                      \/ OwnConflict(local_attr)
                      \/ MergeConflict(global_param, local_attr))) =>
          result.status = "err"
    /\ result.status = "ok" =>
          /\ shape = "named" /\ index = nfields + 1
          /\ result.block = methods
          /\ \A i \in 1..Len(methods) : methods[i].field \in 1..nfields

\* the second field fails after the first one got its methods
C9_Witness ==
    /\ result.status = "err"
    /\ index = 2
    /\ methods # << >>
    /\ result.block = << >>

\* C10: no two methods of a generated block have the same identifier.
C10_DistinctIdentifiers ==
    result.status = "ok" =>
        \A i, j \in 1..Len(result.block) :
            i # j => result.block[i].ident # result.block[j].ident

====
